---- MODULE Spec2Model ----
(***************************************************************************)
(* Model of server.py: the Medit local file gateway.                       *)
(*                                                                         *)
(* HTTPServer (not ThreadingHTTPServer) handles one request at a time, so  *)
(* each handler call (do_GET, do_POST, do_OPTIONS) is one atomic action.   *)
(* The state is the filesystem plus the last request and its response.     *)
(* Strings the code parses are sequences of one-character strings, so the  *)
(* query decoding, the pathlib normalisation and the suffix computation    *)
(* are computed, not assumed.                                              *)
(*                                                                         *)
(* Outside the model: a Content-Length that int() rejects or that exceeds  *)
(* the bytes sent, relative paths and ".." components, symbolic links,     *)
(* directories that cannot be searched, and any process other than the     *)
(* server changing the files.                                              *)
(***************************************************************************)
EXTENDS Integers, Sequences, FiniteSets, TLC

VARIABLES
    fs,      \* the filesystem: the entry of every path in Nodes
    pre,     \* the filesystem as it was when the last request arrived
    req,     \* the last request
    resp,    \* its response; status 0 when no status line was sent
    io,      \* the file operation the handler performed and its error
    echo,    \* history: the last request posted back what the GET before it read
    lastOK,  \* history: per file, the body of the last POST answered 200
    failed   \* history: per file, a POST was answered 500 since then

vars == <<fs, pre, req, resp, io, echo, lastOK, failed>>

(***************************************************************************)
(* Bounds                                                                  *)
(***************************************************************************)
MaxByte == 2
MaxLen == 1

Byte == 1..MaxByte

\* The byte strings of the model: runs of one byte value, up to MaxLen long
\* (closed under taking prefixes).
Bodies == {[i \in 1..n |-> b] : n \in 0..MaxLen, b \in Byte}

(***************************************************************************)
(* urllib.parse: unquote, parse_qs                                         *)
(***************************************************************************)
HexDigit ==
    [c \in {"0", "1", "2", "3", "4", "5", "6", "7", "8", "9",
            "A", "B", "C", "D", "E", "F", "a", "b", "c", "d", "e", "f"} |->
        CASE c = "0" -> 0 [] c = "1" -> 1 [] c = "2" -> 2 [] c = "3" -> 3
          [] c = "4" -> 4 [] c = "5" -> 5 [] c = "6" -> 6 [] c = "7" -> 7
          [] c = "8" -> 8 [] c = "9" -> 9
          [] c \in {"A", "a"} -> 10 [] c \in {"B", "b"} -> 11
          [] c \in {"C", "c"} -> 12 [] c \in {"D", "d"} -> 13
          [] c \in {"E", "e"} -> 14 [] c \in {"F", "f"} -> 15]

\* The character with a given code, for the codes the model's alphabet has;
\* any other code is a character outside the alphabet.
Chr(n) ==
    CASE n = 32 -> " " [] n = 37 -> "%" [] n = 43 -> "+" [] n = 46 -> "."
      [] n = 47 -> "/" [] n = 65 -> "A" [] n = 77 -> "M" [] n = 68 -> "D"
      [] n = 97 -> "a" [] n = 109 -> "m" [] n = 100 -> "d"
      [] OTHER -> "?"

\* unquote(): every %XX with two hex digits becomes the character XX; a '%'
\* not followed by two hex digits stays.
RECURSIVE unquote(_)
unquote(s) ==
    IF s = <<>> THEN <<>>
    ELSE IF /\ s[1] = "%"
            /\ Len(s) >= 3
            /\ s[2] \in DOMAIN HexDigit
            /\ s[3] \in DOMAIN HexDigit
         THEN <<Chr(16 * HexDigit[s[2]] + HexDigit[s[3]])>> \o unquote(SubSeq(s, 4, Len(s)))
         ELSE <<s[1]>> \o unquote(Tail(s))

PlusToSpace(s) == [i \in 1..Len(s) |-> IF s[i] = "+" THEN " " ELSE s[i]]

\* parse_qs() on a query already split at '&' and '=': a sequence of
\* <<name, value>> fields.  Values are decoded ('+' to space, then %XX);
\* fields with a blank value are dropped (keep_blank_values=False).
\* The result here is the list of values of the field "path".
\* Variant: the value of any field is taken for the path.
RECURSIVE parse_qs_AnyField(_)
parse_qs_AnyField(query) ==
    IF query = <<>> THEN <<>>
    ELSE LET value == unquote(PlusToSpace(query[1][2]))
         IN  IF value # <<>>
             THEN <<value>> \o parse_qs_AnyField(Tail(query))
             ELSE parse_qs_AnyField(Tail(query))

RECURSIVE parse_qs(_)
parse_qs(query) ==
    IF query = <<>> THEN <<>>
    ELSE LET name  == query[1][1]
             value == unquote(PlusToSpace(query[1][2]))
         IN  IF name = "path" /\ value # <<>>
             THEN <<value>> \o parse_qs(Tail(query))
             ELSE parse_qs(Tail(query))

\* qs.get("path", [""])[0]
raw_path(r) ==
    LET qs == parse_qs(r.query)
    IN  IF qs = <<>> THEN <<>> ELSE qs[1]

(***************************************************************************)
(* pathlib: Path(), .suffix, str.lower()                                   *)
(***************************************************************************)
\* Split at '/', giving the components (possibly empty) in order.
RECURSIVE SplitSlash(_, _)
SplitSlash(s, cur) ==
    IF s = <<>> THEN <<cur>>
    ELSE IF s[1] = "/" THEN <<cur>> \o SplitSlash(Tail(s), <<>>)
         ELSE SplitSlash(Tail(s), Append(cur, s[1]))

RECURSIVE DropBlank(_)
DropBlank(parts) ==
    IF parts = <<>> THEN <<>>
    ELSE IF parts[1] = <<>> \/ parts[1] = <<".">>
         THEN DropBlank(Tail(parts))
         ELSE <<parts[1]>> \o DropBlank(Tail(parts))

\* Path(s) for an absolute s: the components below the root, with empty
\* and "." components collapsed (".." is kept by pathlib and is not among
\* the model's inputs).
Path(s) == DropBlank(SplitSlash(s, <<>>))

\* str(Path)
RECURSIVE PathStr(_)
PathStr(p) ==
    IF p = <<>> THEN <<>>
    ELSE <<"/">> \o p[1] \o PathStr(Tail(p))

Name(p) == IF p = <<>> THEN <<>> ELSE p[Len(p)]

\* PurePath.suffix: name[i:] for the last '.' at 0-based i with
\* 0 < i < len(name) - 1, else ''.
suffix(p) ==
    LET name == Name(p)
        dots == {i \in 1..Len(name) : name[i] = "."}
    IN  IF dots = {} THEN <<>>
        ELSE LET i == CHOOSE k \in dots : \A j \in dots : j <= k
             IN  IF 1 < i /\ i < Len(name)
                 THEN SubSeq(name, i, Len(name))
                 ELSE <<>>

LowerChar(c) ==
    CASE c = "A" -> "a" [] c = "D" -> "d" [] c = "K" -> "k" [] c = "M" -> "m"
      [] c = "N" -> "n" [] c = "O" -> "o" [] c = "R" -> "r" [] c = "W" -> "w"
      [] OTHER -> c

lower(s) == [i \in 1..Len(s) |-> LowerChar(s[i])]

MarkdownSuffixes ==
    { <<".", "m", "d">>,
      <<".", "m", "a", "r", "k", "d", "o", "w", "n">> }

\* Variant: any extension at all is accepted.
IsMarkdown_AnySuffix(p) == suffix(p) # <<>>

\* Variant: the test without its negation.
IsMarkdown_Inverted(p) == lower(suffix(p)) \notin MarkdownSuffixes

\* file_path.suffix.lower() in ['.md', '.markdown']
IsMarkdown(p) == lower(suffix(p)) \in MarkdownSuffixes

(***************************************************************************)
(* The filesystem                                                          *)
(***************************************************************************)
dDir   == << <<"d">> >>
fUpper == << <<"d">>, <<"A", ".", "M", "D">> >>
fLower == << <<"d">>, <<"a", ".", "m", "d">> >>
fText  == << <<"d">>, <<"b", ".", "t", "x", "t">> >>

\* The paths whose entry is part of the state; every other path is absent.
Nodes == {dDir, fUpper, fLower, fText}

Absent == [kind |-> "absent", data |-> <<>>, mode |-> {}]
File(data, mode) == [kind |-> "file", data |-> data, mode |-> mode]
Dir(mode) == [kind |-> "dir", data |-> <<>>, mode |-> mode]

Lookup(f, p) ==
    IF p = <<>> THEN Dir({"r"})
    ELSE IF p \in Nodes THEN f[p] ELSE Absent

Parent(p) == SubSeq(p, 1, Len(p) - 1)

\* Variant: the existence test dropped.
exists_Always(f, p) == TRUE

\* Path.exists(): the entry and every directory above it exist.
exists(f, p) ==
    /\ Lookup(f, p).kind # "absent"
    /\ p # <<>> => Lookup(f, Parent(p)).kind = "dir"

\* Path.read_bytes(): the bytes, or the OSError that open()/read() raises.
\* ioerr is the device's verdict on the read itself.
read_bytes(f, p, ioerr) ==
    LET e == Lookup(f, p)
    IN  IF e.kind = "dir" THEN [err |-> "EISDIR", data |-> <<>>]
        ELSE IF "r" \notin e.mode THEN [err |-> "EACCES", data |-> <<>>]
        ELSE IF ioerr THEN [err |-> "EIO", data |-> <<>>]
        ELSE [err |-> "", data |-> e.data]

\* The error of open(p, 'wb'), "" when the file is opened (and truncated).
OpenForWrite(f, p) ==
    LET e == Lookup(f, p)
        d == Lookup(f, Parent(p))
    IN  IF d.kind = "absent" THEN "ENOENT"
        ELSE IF d.kind = "file" THEN "ENOTDIR"
        ELSE IF e.kind = "dir" THEN "EISDIR"
        ELSE IF e.kind = "file" /\ "w" \notin e.mode THEN "EACCES"
        ELSE IF e.kind = "absent" /\ "w" \notin d.mode THEN "EACCES"
        ELSE ""

\* Variant: the file is opened for appending instead of truncated.
Stored_Append(f, p, data) ==
    LET e == Lookup(f, p)
    IN  [f EXCEPT ![p] = File(e.data \o data, IF e.kind = "file" THEN e.mode ELSE {"r", "w"})]

Stored(f, p, data) ==
    LET e == Lookup(f, p)
    IN  [f EXCEPT ![p] = File(data, IF e.kind = "file" THEN e.mode ELSE {"r", "w"})]

\* Path.write_bytes(content): open(mode='wb') creates or truncates, then
\* the bytes are written.  The outcomes are: an open error (nothing
\* changed), a complete write, or a device error after the truncation that
\* leaves a proper prefix of the content behind.
write_bytes(f, p, content) ==
    LET e == OpenForWrite(f, p)
    IN  IF e # "" THEN {[err |-> e, fs |-> f]}
        ELSE {[err |-> "", fs |-> Stored(f, p, content)]}
             \cup {[err |-> "EIO", fs |-> Stored(f, p, SubSeq(content, 1, k))] :
                      k \in 0..(Len(content) - 1)}

(***************************************************************************)
(* Requests and responses                                                  *)
(***************************************************************************)
NoHeader == -1

qUpper   == <<"/", "d", "/", "A", ".", "M", "D">>
qEscaped == <<"/", "d", "/", "%", "2", "5", "4", "1", ".", "M", "D">>
qLower   == <<"%", "2", "F", "d", "%", "2", "F", "a", ".", "m", "d">>
qDotSeg  == <<"/", "d", "/", ".", "/", "a", ".", "m", "d">>
qText    == <<"/", "d", "/", "b", ".", "t", "x", "t">>
qDir     == <<"/", "d">>
qOrphan  == <<"/", "n", "/", "c", ".", "m", "a", "r", "k", "d", "o", "w", "n">>
qHidden  == <<"/", "d", "/", ".", "m", "d">>

Queries ==
    { <<>>,
      << <<"path", <<>>>> >>,
      << <<"v", <<"1">>>> >>,
      << <<"path", qUpper>> >>,
      << <<"path", qEscaped>> >>,
      << <<"path", qLower>> >>,
      << <<"path", qDotSeg>> >>,
      << <<"path", qText>> >>,
      << <<"path", qDir>> >>,
      << <<"path", qOrphan>> >>,
      << <<"path", qHidden>> >> }

StaticAssets == {"/index.html"}

Request(method, url, query, cl, stream) ==
    [method |-> method, url |-> url, query |-> query, cl |-> cl, stream |-> stream]

NoRequest == Request("", "", <<>>, NoHeader, <<>>)

GetRequests ==
    {Request("GET", "/file", q, NoHeader, <<>>) : q \in Queries}
    \cup {Request("GET", u, <<>>, NoHeader, <<>>) : u \in {"/version", "/index.html", "/app.js"}}

\* A stream sent without a Content-Length header.
Unsized == [i \in 1..1 |-> 1]


PostRequests ==
    {Request("POST", "/file", q, Len(b), b) : q \in Queries, b \in Bodies}
    \cup {Request("POST", "/file", << <<"path", q>> >>, NoHeader, Unsized) : q \in {qUpper, qLower}}
    \cup {Request("POST", "/save", <<>>, 0, <<>>)}

OptionsRequests ==
    {Request("OPTIONS", "/file", <<>>, NoHeader, <<>>)}

Response(status, ctype, cors) ==
    [status |-> status, ctype |-> ctype, cors |-> cors, methods |-> "",
     text |-> "", data |-> <<>>, json |-> FALSE, error |-> "",
     success |-> FALSE, path |-> <<>>]

\* No status line was sent: the handler raised before send_response().
NoResponse == Response(0, "", FALSE)

NoIO == [op |-> "none", err |-> "", path |-> <<>>]

(***************************************************************************)
(* Handler.do_GET                                                          *)
(***************************************************************************)
SERVER_VERSION == "1.1.0"
SERVER_NAME == "Medit Server"

GetVersion ==
    [Response(200, "application/json", TRUE) EXCEPT
        !.json = TRUE, !.text = SERVER_VERSION, !.error = SERVER_NAME]

GetMissingPath == [Response(400, "", FALSE) EXCEPT !.text = "Missing path"]

GetNotFound == [Response(404, "", FALSE) EXCEPT !.text = "File not found"]

GetOk(data) ==
    [Response(200, "text/plain; charset=utf-8", TRUE) EXCEPT !.data = data]

\* SimpleHTTPRequestHandler.do_GET: the asset under ROOT, or 404.
GetStatic(url) ==
    IF url \in StaticAssets
    THEN [Response(200, "text/html", FALSE) EXCEPT !.text = url]
    ELSE [Response(404, "text/html;charset=utf-8", FALSE) EXCEPT !.text = "File not found"]

do_GET(r) ==
    /\ r.method = "GET"
    /\ req' = r
    /\ pre' = fs
    /\ fs' = fs
    /\ IF r.url = "/version"
       THEN resp' = GetVersion /\ io' = NoIO
       ELSE IF r.url = "/file"
       THEN IF raw_path(r) = <<>>
            THEN resp' = GetMissingPath /\ io' = NoIO
            ELSE LET file_path == Path(unquote(raw_path(r)))
                 IN  IF ~exists(fs, file_path)
                     THEN resp' = GetNotFound /\ io' = NoIO
                     ELSE \E ioerr \in BOOLEAN :
                            LET got == read_bytes(fs, file_path, ioerr)
                            IN  /\ io' = [op |-> "read", err |-> got.err, path |-> file_path]
                                /\ resp' = IF got.err # "" THEN NoResponse
                                                            ELSE GetOk(got.data)
       ELSE resp' = GetStatic(r.url) /\ io' = NoIO

(***************************************************************************)
(* Handler.do_POST                                                         *)
(***************************************************************************)
JsonError(status, message) ==
    [Response(status, "application/json", TRUE) EXCEPT !.json = TRUE, !.error = message]

PostOk(file_path) ==
    [Response(200, "application/json", TRUE) EXCEPT
        !.json = TRUE, !.success = TRUE, !.path = PathStr(file_path)]

PostNotFound == [Response(404, "", FALSE) EXCEPT !.text = "Not found"]

\* Variant: the success response also after a failed write.
PostResult_AlwaysOk(file_path, err) == PostOk(file_path)

\* The response the try block sends after write_bytes() returned, or the
\* except block sends with str(e).
PostResult(file_path, err) ==
    IF err = "" THEN PostOk(file_path) ELSE JsonError(500, err)

\* Variant: everything sent is read, whatever Content-Length says.
ReadBody_WholeStream(r) == r.stream

\* self.rfile.read(int(self.headers.get('Content-Length', 0)))
ReadBody(r) ==
    LET content_length == IF r.cl = NoHeader THEN 0 ELSE r.cl
    IN  SubSeq(r.stream, 1, content_length)

do_POST(r) ==
    /\ r.method = "POST"
    /\ req' = r
    /\ pre' = fs
    /\ IF r.url # "/file"
       THEN /\ resp' = PostNotFound
            /\ io' = NoIO
            /\ fs' = fs
       ELSE IF raw_path(r) = <<>>
       THEN /\ resp' = JsonError(400, "Missing path")
            /\ io' = NoIO
            /\ fs' = fs
       ELSE LET file_path == Path(unquote(raw_path(r)))
            IN  IF ~IsMarkdown(file_path)
                THEN /\ resp' = JsonError(400, "Only markdown files allowed")
                     /\ io' = NoIO
                     /\ fs' = fs
                ELSE LET content == ReadBody(r)
                     IN  \E out \in write_bytes(fs, file_path, content) :
                            /\ fs' = out.fs
                            /\ io' = [op |-> "write", err |-> out.err, path |-> file_path]
                            /\ resp' = PostResult(file_path, out.err)

(***************************************************************************)
(* Handler.do_OPTIONS                                                      *)
(***************************************************************************)
Preflight ==
    [Response(200, "", TRUE) EXCEPT !.methods = "GET, POST, OPTIONS"]

do_OPTIONS(r) ==
    /\ r.method = "OPTIONS"
    /\ req' = r
    /\ pre' = fs
    /\ resp' = Preflight
    /\ io' = NoIO
    /\ fs' = fs

(***************************************************************************)
(* History of the run, computed from the requests and responses alone      *)
(***************************************************************************)
IsGetFile(r) == r.method = "GET" /\ r.url = "/file"

IsPostFile(r) == r.method = "POST" /\ r.url = "/file"

\* The body of a request: the bytes its Content-Length header announces,
\* none without the header.
BodyOf(r) == IF r.cl = NoHeader THEN <<>> ELSE SubSeq(r.stream, 1, r.cl)

\* The file a /file request names.
Target(r) == Path(unquote(raw_path(r)))

\* echo: this request is a POST /file that sends back, to the same query,
\* the bytes the immediately preceding GET /file answered with status 200.
Track ==
    echo' = /\ IsGetFile(req)
            /\ resp.status = 200
            /\ IsPostFile(req')
            /\ req'.query = req.query
            /\ BodyOf(req') = resp.data

\* lastOK[n]: the body of the most recent POST /file to n answered 200.
\* failed[n]: a POST /file to n has been answered 500 since then.
Observe ==
    LET n == Target(req')
    IN  IF IsPostFile(req') /\ resp'.status \in {200, 500} /\ n \in Nodes
        THEN IF resp'.status = 200
             THEN /\ lastOK' = [lastOK EXCEPT ![n] = [has |-> TRUE, body |-> BodyOf(req')]]
                  /\ failed' = [failed EXCEPT ![n] = FALSE]
             ELSE /\ failed' = [failed EXCEPT ![n] = TRUE]
                  /\ UNCHANGED lastOK
        ELSE UNCHANGED <<lastOK, failed>>

(***************************************************************************)
(* Specification                                                           *)
(***************************************************************************)
Modes == {{"r", "w"}, {"r"}, {"w"}}

Init ==
    /\ \E dm \in {{"r", "w"}, {"r"}} :
       \E up \in {Absent} \cup {File(b, m) : b \in Bodies, m \in Modes} :
       \E lo \in {Absent} \cup {File(b, {"r", "w"}) : b \in Bodies} :
          fs = [n \in Nodes |->
                  CASE n = dDir -> Dir(dm)
                    [] n = fUpper -> up
                    [] n = fLower -> lo
                    [] OTHER -> File(Unsized, {"r", "w"})]
    /\ pre = fs
    /\ req = NoRequest
    /\ resp = NoResponse
    /\ io = NoIO
    /\ echo = FALSE
    /\ lastOK = [n \in Nodes |-> [has |-> FALSE, body |-> <<>>]]
    /\ failed = [n \in Nodes |-> FALSE]

Handle ==
    \/ \E r \in GetRequests : do_GET(r)
    \/ \E r \in PostRequests : do_POST(r)
    \/ \E r \in OptionsRequests : do_OPTIONS(r)

Next == Handle /\ Track /\ UNCHANGED <<lastOK, failed>>

Spec == Init /\ [][Next]_vars

\* The same server with the history of successful writes recorded, under
\* the requests that reach a file of the state or lack the parameter.
HistQueries ==
    { <<>>,
      << <<"path", qUpper>> >>,
      << <<"path", qEscaped>> >>,
      << <<"path", qLower>> >> }

\* Init with the directory writable and a.md not yet created.
InitHist ==
    /\ Init
    /\ fs[dDir].mode = {"r", "w"}
    /\ fs[fLower] = Absent

\* POSTs to a.md carry the empty body or the one-byte body only.
HistPosts ==
    {x \in PostRequests :
        /\ x.query \in HistQueries
        /\ x.query = << <<"path", qLower>> >> => x.stream \in {<<>>, Unsized}}

HandleHist ==
    \/ \E r \in {x \in GetRequests : x.query \in HistQueries} : do_GET(r)
    \/ \E r \in HistPosts : do_POST(r)
    \/ \E r \in OptionsRequests : do_OPTIONS(r)

NextHist == HandleHist /\ Track /\ Observe

SpecHist == InitHist /\ [][NextHist]_vars

(***************************************************************************)
(* Vocabulary of the properties, stated without the handler's own checks   *)
(***************************************************************************)
\* The query has no path parameter, or only empty ones.
NoPathParam(r) ==
    \A i \in 1..Len(r.query) : r.query[i][1] # "path" \/ r.query[i][2] = <<>>

UpperOf(l) ==
    CASE l = "a" -> "A" [] l = "d" -> "D" [] l = "k" -> "K" [] l = "m" -> "M"
      [] l = "n" -> "N" [] l = "o" -> "O" [] l = "r" -> "R" [] l = "w" -> "W"
      [] OTHER -> l

\* name ends with ext, letters compared case-insensitively, after a
\* non-empty stem.
EndsWithCI(name, ext) ==
    /\ Len(name) > Len(ext)
    /\ \A i \in 1..Len(ext) :
          LET c == name[Len(name) - Len(ext) + i]
          IN  c = ext[i] \/ c = UpperOf(ext[i])

\* The path's extension is .md or .markdown.
HasMarkdownExtension(p) ==
    /\ p # <<>>
    /\ \E ext \in MarkdownSuffixes : EndsWithCI(Name(p), ext)

\* The path names an existing regular file in filesystem f.
IsRegularFile(f, p) == p \in Nodes /\ f[p].kind = "file"

\* C1: a POST /file with a non-empty path whose extension is neither .md
\* nor .markdown (case-insensitively) is answered 400 with a JSON error and
\* changes no file; every file a request changes has a markdown extension.
C1_NonMarkdownRejected ==
    /\ (IsPostFile(req) /\ ~NoPathParam(req) /\ ~HasMarkdownExtension(Target(req)))
          => /\ resp.status = 400
             /\ resp.json
             /\ resp.error # ""
             /\ fs = pre
    /\ \A n \in Nodes : fs[n] # pre[n] => HasMarkdownExtension(n)

C1_Witness ==
    /\ IsPostFile(req)
    /\ Target(req) = fText
    /\ IsRegularFile(pre, fText)
    /\ BodyOf(req) # pre[fText].data
    /\ resp.status = 400

\* C2 as claimed: for every existing regular markdown file F, GET /file of F
\* returns 200, and a following POST /file of F with the returned bytes
\* returns 200 and leaves F's content what it was before the GET.
C2_Original ==
    /\ [](IsGetFile(req) /\ ~NoPathParam(req) /\ IsRegularFile(pre, Target(req))
            /\ HasMarkdownExtension(Target(req))
          => resp.status = 200)
    /\ [][(/\ IsGetFile(req) /\ ~NoPathParam(req)
           /\ IsRegularFile(pre, Target(req))
           /\ HasMarkdownExtension(Target(req))
           /\ IsPostFile(req') /\ req'.query = req.query
           /\ BodyOf(req') = resp.data)
          => /\ resp'.status = 200
             /\ fs'[Target(req)] = pre[Target(req)]]_vars

\* C2 amended: when the GET returns 200 and the POST of the returned bytes
\* returns 200, every file is byte-for-byte what it was before the GET; the
\* GET returns 200 exactly when the read succeeds and the POST returns 200
\* exactly when the write succeeds (500 otherwise).
C2_RoundTrip ==
    [][(/\ IsGetFile(req) /\ ~NoPathParam(req)
        /\ IsRegularFile(pre, Target(req))
        /\ HasMarkdownExtension(Target(req))
        /\ IsPostFile(req') /\ req'.query = req.query
        /\ BodyOf(req') = resp.data)
       => /\ (resp.status = 200) = (io.op = "read" /\ io.err = "")
          /\ (resp'.status = 200) = (io'.op = "write" /\ io'.err = "")
          /\ resp'.status \in {200, 500}
          /\ (resp.status = 200 /\ resp'.status = 200) => fs' = pre]_vars

C2_Witness ==
    /\ echo
    /\ resp.status = 200
    /\ Target(req) = fUpper
    /\ IsRegularFile(pre, fUpper)
    /\ Len(pre[fUpper].data) > 0

\* C3 as claimed: each markdown file holds exactly the body of the most
\* recent POST /file to it that was answered 200, and a GET /file of it
\* returns exactly that body.
C3_Original ==
    \A n \in Nodes :
       lastOK[n].has =>
          /\ fs[n].kind = "file"
          /\ fs[n].data = lastOK[n].body
          /\ (IsGetFile(req) /\ ~NoPathParam(req) /\ Target(req) = n)
                => (resp.status = 200 /\ resp.data = lastOK[n].body)

\* C3 amended: each markdown file holds exactly the body of the most recent
\* POST /file to it that was answered 200, as long as no POST /file to it
\* has been answered 500 since, and a GET /file of it that is answered 200
\* returns exactly that body.
C3_LastWriterWins ==
    \A n \in Nodes :
       (lastOK[n].has /\ ~failed[n]) =>
          /\ fs[n].kind = "file"
          /\ fs[n].data = lastOK[n].body
          /\ (IsGetFile(req) /\ ~NoPathParam(req) /\ Target(req) = n /\ resp.status = 200)
                => resp.data = lastOK[n].body

C3_Witness ==
    /\ IsGetFile(req)
    /\ Target(req) = fUpper
    /\ lastOK[fUpper].has
    /\ ~failed[fUpper]
    /\ resp.status = 200
    /\ Len(resp.data) > 0

\* C4: a GET /file or POST /file without a (non-empty) path parameter is
\* answered 400, plain text for GET and JSON {"error": "Missing path"} for
\* POST, and touches no file.
C4_MissingPath ==
    /\ (IsGetFile(req) /\ NoPathParam(req))
          => /\ resp.status = 400
             /\ ~resp.json
             /\ resp.text = "Missing path"
             /\ io = NoIO
             /\ fs = pre
    /\ (IsPostFile(req) /\ NoPathParam(req))
          => /\ resp.status = 400
             /\ resp.json
             /\ resp.error = "Missing path"
             /\ io = NoIO
             /\ fs = pre

C4_Witness ==
    /\ IsPostFile(req)
    /\ req.query # <<>>
    /\ NoPathParam(req)
    /\ req.stream # <<>>
    /\ resp.status = 400

\* C5: a GET /file with a non-empty path that names no existing entry is
\* answered 404 and leaves the filesystem unchanged.
C5_GetMissingFile ==
    (IsGetFile(req) /\ ~NoPathParam(req) /\ Lookup(pre, Target(req)).kind = "absent")
       => /\ resp.status = 404
          /\ fs = pre

C5_Witness ==
    /\ IsGetFile(req)
    /\ Target(req) = fLower
    /\ pre[fLower].kind = "absent"
    /\ resp.status = 404

\* C6: a GET /file of a path that exists but is not a regular file is
\* answered 400.
C6_NotRegularFile ==
    (IsGetFile(req) /\ ~NoPathParam(req) /\ Lookup(pre, Target(req)).kind = "dir")
       => resp.status = 400

\* C7: a GET /file whose read fails still ends with a status: 403 for a
\* permission error, 500 with a message for any other error; no GET /file
\* ends without a status line.
C7_ReadFailureStatus ==
    IsGetFile(req) =>
       /\ resp.status # 0
       /\ (io.op = "read" /\ io.err = "EACCES") => resp.status = 403
       /\ (io.op = "read" /\ io.err \notin {"", "EACCES"})
             => (resp.status = 500 /\ resp.text # "")

\* C8: a GET /file answered 200 has content type text/markdown for a .md or
\* .markdown path and text/plain otherwise, charset UTF-8, and
\* Access-Control-Allow-Origin: *.
C8_ContentType ==
    (IsGetFile(req) /\ resp.status = 200) =>
       /\ resp.cors
       /\ resp.ctype = IF HasMarkdownExtension(Target(req))
                       THEN "text/markdown; charset=utf-8"
                       ELSE "text/plain; charset=utf-8"

\* C9: for a POST /file with a non-empty markdown path, a failed write is
\* answered 500 with JSON {"error": message}, never 200, and the server can
\* handle a further request; a POST answered 200 has written the file.
C9_WriteFailure ==
    (IsPostFile(req) /\ ~NoPathParam(req) /\ HasMarkdownExtension(Target(req))) =>
       /\ io.op = "write"
       /\ io.err # "" => /\ resp.status = 500
                         /\ resp.json
                         /\ resp.error = io.err
                         /\ ENABLED Handle
       /\ resp.status = 200 =>
             /\ io.err = ""
             /\ IsRegularFile(fs, Target(req))
             /\ fs[Target(req)].data = BodyOf(req)

C9_Witness ==
    /\ IsPostFile(req)
    /\ Target(req) = fUpper
    /\ io.err = "EACCES"
    /\ resp.status = 500
    /\ fs = pre

\* C10: only a POST to exactly /file that passes the path and extension
\* checks changes the filesystem, and it changes at most the file its path
\* names; every GET, every OPTIONS and every POST elsewhere (answered 404)
\* leaves all files unchanged.
C10_Frame ==
    /\ fs # pre =>
          /\ IsPostFile(req)
          /\ ~NoPathParam(req)
          /\ HasMarkdownExtension(Target(req))
          /\ \A n \in Nodes \ {Target(req)} : fs[n] = pre[n]
    /\ (req.method = "POST" /\ req.url # "/file") => (resp.status = 404 /\ fs = pre)
    /\ req.method \in {"GET", "OPTIONS"} => fs = pre

C10_Witness ==
    /\ fs # pre
    /\ IsPostFile(req)
    /\ Target(req) = fLower
    /\ pre[fLower].kind = "file"
    /\ pre[fUpper].kind = "file"

====
